---- MODULE Spec2Model ----
(***************************************************************************)
(* Model of police_weapon_tracker.py: a Streamlit script.  Streamlit runs  *)
(* the whole script from top to bottom once per user interaction (a        *)
(* "render pass"); st.session_state is the only state that survives from   *)
(* one pass to the next.  Every action below is one render pass: the pass   *)
(* a user interaction triggers, or the pass the script runner starts when  *)
(* the pass before it ended in st.rerun().                                 *)
(*                                                                         *)
(* Representation.  A data frame is a record [isNone, rows, columns,       *)
(* derived]: rows are the CSV records in index order, columns the column   *)
(* labels in order, derived the per-row values of the columns that         *)
(* create_analytics adds.  Strings that are searched are sequences of      *)
(* one-character strings.  Dates of birth are kept as the number of days   *)
(* between the date of birth and datetime.now().  The timestamp of a       *)
(* notification (datetime.now()) is not modelled, nor are the session keys  *)
(* that are written and never read (action_type, show_notification_panel,  *)
(* bulk_action_df, show_bulk_notification).                                *)
(***************************************************************************)
EXTENDS Integers, Sequences, FiniteSets

VARIABLES
    df,        \* st.session_state.df
    log,       \* st.session_state.notifications_sent
    config,    \* st.session_state.selected_station / deadline / return_date
    page,      \* value of the "Select Page" selectbox
    uploaded,  \* value of the "Choose CSV file" uploader
    last,      \* what the last interaction did and showed (its output)
    rerun,     \* the last pass ended in st.rerun(): the runner starts a pass
    ageDays,   \* input of the age classifier  (specification SpecAge)
    ageGroup,  \* output of the age classifier (specification SpecAge)
    query,     \* input of the filter  (specification SpecFilter)
    view       \* output of the filter (specification SpecFilter)

vars ==
    <<df, log, config, page, uploaded, last, rerun, ageDays, ageGroup, query, view>>

sessionVars == <<df, log, config, page, uploaded, last, rerun>>

ageVars == <<ageDays, ageGroup>>

filterVars == <<query, view>>

-----------------------------------------------------------------------------
(* Bounds of the model *)

MaxRows == 2

MaxLog == 2

MaxAge == 104

MaxQueryRows == 2

-----------------------------------------------------------------------------
(* Values *)

Statuses == {"Active", "Submitted", "Expired", "Revoked"}

Licenses == {"L1", "L2"}

Pages == {"Dashboard", "Weapon Management", "Analytics", "Notifications", "Reports"}

Stations == <<"Habibganj Police Station", "MP Nagar Police Station">>

Schema ==
    <<"Name", "License_No", "Area", "Police_Station", "Address", "Gun_Type",
      "Weapon_Model", "Issue_Date", "Expiry_Date", "Status", "Mobile",
      "Gender", "DOB", "Remarks">>

Areas == <<"Kolar Road", "MP Nagar">>

GunTypes == <<"Pistol", "Rifle">>

Names == << <<"A", "b">>, <<"b", ".">>, <<"a", "a">> >>

DobDays == <<7400, 16500, 22300, 10950>>

Searches == {<<>>, <<"a">>, <<".">>, <<"B", ".">>}

\* The i-th record of a CSV file: license number and status vary freely, the
\* other fields are fixed by the position of the record in the file.
Row(i, lic, status) ==
    [Name       |-> Names[((i - 1) % Len(Names)) + 1],
     License_No |-> lic,
     Area       |-> Areas[((i - 1) % Len(Areas)) + 1],
     Gun_Type   |-> GunTypes[((i \div 2) % Len(GunTypes)) + 1],
     Status     |-> status,
     Mobile     |-> 9000 + i,
     DOB        |-> DobDays[((i - 1) % Len(DobDays)) + 1]]

FilesOfLen(n) ==
    {[i \in 1..n |-> Row(i, l[i], s[i])] :
        l \in {f \in [1..n -> Licenses] : f[1] = "L1"}, s \in [1..n -> Statuses]}

Files == UNION {FilesOfLen(n) : n \in 1..MaxRows}

NoFile == [present |-> FALSE, rows |-> <<>>]

Disk == {NoFile} \cup {[present |-> TRUE, rows |-> f] : f \in Files}

NoneDf == [isNone |-> TRUE, rows |-> <<>>, columns |-> <<>>, derived |-> <<>>]

NoConfig ==
    [set |-> FALSE, selected_station |-> "", deadline |-> "", return_date |-> ""]

NoExport == [columns |-> <<>>, rows |-> <<>>]

NoFilter == [area |-> "All", status |-> "All", weapon |-> "All", search |-> <<>>]

NoQuery == [rows |-> <<>>, filter |-> NoFilter, done |-> FALSE, outcome |-> "ok"]

\* The record of an interaction: what triggered it (op), the row acted on and
\* its License_No, how its last pass ended ("rerun": in st.rerun()), the rows
\* of the frame when the handler started (for the two status buttons), the
\* widget values the handler used, and the CSV it offered for download.
Pass(op) ==
    [op |-> op, row |-> 0, key |-> "", outcome |-> "ok", before |-> <<>>,
     areas |-> {}, filter |-> NoFilter, out |-> NoExport]

-----------------------------------------------------------------------------
(* pandas *)

\* pd.read_csv: the records in file order under the file's header.
ReadCsv(f) ==
    [isNone |-> FALSE, rows |-> f, columns |-> Schema, derived |-> <<>>]

\* load_data(): the default dataset, or None when the file is not there.
LoadData(disk) == IF disk.present THEN ReadCsv(disk.rows) ELSE NoneDf

\* frame[mask]: the rows whose index is in keep, in index order.
RECURSIVE Mask(_, _, _)
Mask(rows, keep, i) ==
    IF i > Len(rows) THEN <<>>
    ELSE (IF i \in keep THEN <<rows[i]>> ELSE <<>>) \o Mask(rows, keep, i + 1)

Lower(c) == IF c = "A" THEN "a" ELSE IF c = "B" THEN "b" ELSE c

\* One pattern character against one text character under re.IGNORECASE:
\* "." is the regular-expression wildcard.
CharMatch(p, c) == p = "." \/ Lower(p) = Lower(c)

\* Series.str.contains(pat, case=False, na=False): pat is a regular
\* expression (regex=True is the default) searched anywhere in the text.
StrContains(text, pat) ==
    \E off \in 0..(Len(text) - Len(pat)) :
        \A k \in 1..Len(pat) : CharMatch(pat[k], text[off + k])

\* df.loc[df['License_No'] == lic, 'Status'] = status
SetStatus(rows, lic, status) ==
    [i \in 1..Len(rows) |->
        IF rows[i].License_No = lic THEN [rows[i] EXCEPT !.Status = status]
        ELSE rows[i]]

-----------------------------------------------------------------------------
(* Age analysis (create_analytics) *)

age_bins == <<0, 30, 40, 50, 60, 100>>

age_labels == <<"21-30", "31-40", "41-50", "51-60", "60+">>

\* (datetime.now() - pd.to_datetime(df['DOB'])).dt.days // 365
Age(days) == days \div 365

\* pd.cut(x, bins, labels, right=False): the label of the half-open interval
\* [bins[k], bins[k+1]) that holds x, NaN when no interval does.
Cut(x, bins, labels) ==
    IF \E k \in 1..Len(labels) : bins[k] <= x /\ x < bins[k + 1]
    THEN labels[CHOOSE k \in 1..Len(labels) : bins[k] <= x /\ x < bins[k + 1]]
    ELSE "NaN"

\* pd.cut(df['Age'], bins=[20] + age_bins[1:], labels=age_labels, right=False)
AgeGroup(age) == Cut(age, <<20>> \o Tail(age_bins), age_labels)

\* df['Age'] = ...; df['Age_Group'] = ...: df is st.session_state.df itself,
\* so both columns are added to (or overwritten in) the stored frame.
CreateAnalytics(d) ==
    [d EXCEPT
        !.columns = IF \E k \in 1..Len(@) : @[k] = "Age" THEN @
                    ELSE @ \o <<"Age", "Age_Group">>,
        !.derived = [i \in 1..Len(d.rows) |->
                        [Age       |-> Age(d.rows[i].DOB),
                         Age_Group |-> AgeGroup(Age(d.rows[i].DOB))]]]

-----------------------------------------------------------------------------
(* main(): the part of every render pass that comes before the page *)

\* Lines 479-499.  clickLoad: the Load/Refresh button was pressed; up: the
\* value of the file uploader; disk: the default dataset on disk during this
\* pass.  The uploader hands a freshly positioned file object to every pass
\* (Streamlit >= 1.27, which st.rerun() requires), so the upload is read
\* again in every pass for as long as the file stays in the uploader.
MainTop(d, clickLoad, up, disk) ==
    LET d1 == IF clickLoad THEN LoadData(disk) ELSE d
        d2 == IF up.present THEN ReadCsv(up.rows) ELSE d1
    IN  IF d2.isNone THEN LoadData(disk) ELSE d2

\* The default dataset is looked at only in a pass that calls load_data() and
\* keeps its result.
DiskChoices(clickLoad, up) ==
    IF ~up.present /\ (clickLoad \/ df.isNone) THEN Disk ELSE {NoFile}

\* Lines 501-516: the frame after the selected page has been drawn with no
\* button pressed.  Only create_analytics writes to the frame.
RenderPage(d, p) ==
    IF d.isNone THEN d
    ELSE IF p = "Analytics" THEN CreateAnalytics(d)
    ELSE d

\* The value the "Collection Point" selectbox holds in a pass the user did
\* not change it in: the one it held in the previous pass if it was drawn
\* there, its first option otherwise.
StationWidget ==
    IF page = "Notifications" /\ ~df.isNone /\ config.set
    THEN config.selected_station
    ELSE Stations[1]

\* Lines 344-364: create_notification_panel stores the widget values.
PanelConfig(d, p, station) ==
    IF d.isNone \/ p # "Notifications" THEN config
    ELSE [set |-> TRUE, selected_station |-> station,
          deadline |-> "today+7", return_date |-> "today+30"]

-----------------------------------------------------------------------------
(* Notification dispatch *)

NoEvent == [mobile |-> 0, name |-> <<>>, message |-> <<>>, status |-> ""]

\* send_notification_simulation: the dictionary of the three messages is
\* built first, and each of them reads st.session_state.selected_station and
\* .deadline (.return_date for 'return'); reading a key that was never stored
\* raises AttributeError.
send_notification_simulation(mobile, name, message_type, cfg) ==
    IF ~cfg.set
    THEN [raised |-> TRUE, event |-> NoEvent]
    ELSE [raised |-> FALSE,
          event  |-> [mobile  |-> mobile,
                      name    |-> name,
                      message |-> <<message_type, name, cfg.selected_station,
                                    IF message_type = "return"
                                    THEN cfg.return_date ELSE cfg.deadline>>,
                      status  |-> "Sent"]]

\* Lines 375-378: df[df['Area'].isin(selected_areas) & (df['Status'] == 'Active')]
FilteredForNotification(rows, selected_areas) ==
    Mask(rows,
         {i \in 1..Len(rows) :
            rows[i].Area \in selected_areas /\ rows[i].Status = "Active"},
         1)

\* Lines 386-393: one notification per row of the filtered frame, in order.
RECURSIVE BulkNotifications(_, _, _)
BulkNotifications(targets, cfg, i) ==
    IF i > Len(targets) THEN <<>>
    ELSE <<send_notification_simulation(
                targets[i].Mobile, targets[i].Name, "collection", cfg).event>>
         \o BulkNotifications(targets, cfg, i + 1)

-----------------------------------------------------------------------------
(* Weapon management filters (lines 261-274) *)

\* The dtype pd.read_csv gives the Name column: a column in which every field
\* is missing (<<>>) is read as float64 (all NaN), any other column, the one
\* of a frame without rows included, as object.
NameIsFloat(rows) ==
    /\ Len(rows) > 0
    /\ \A i \in 1..Len(rows) : rows[i].Name = <<>>

\* Lines 261-274.  The masks keep the dtype of the stored column, so with a
\* search text and a float64 Name column the .str accessor of line 274 raises
\* AttributeError and the pass ends there without a filtered frame.
FilteredDf(rows, selected_area, selected_status, selected_weapon, search_name) ==
    LET f1 == IF selected_area # "All"
              THEN Mask(rows, {i \in 1..Len(rows) : rows[i].Area = selected_area}, 1)
              ELSE rows
        f2 == IF selected_status # "All"
              THEN Mask(f1, {i \in 1..Len(f1) : f1[i].Status = selected_status}, 1)
              ELSE f1
        f3 == IF selected_weapon # "All"
              THEN Mask(f2, {i \in 1..Len(f2) : f2[i].Gun_Type = selected_weapon}, 1)
              ELSE f2
    IN  IF search_name = <<>>
        THEN [outcome |-> "ok", rows |-> f3]
        ELSE IF NameIsFloat(rows)
        THEN [outcome |-> "AttributeError", rows |-> <<>>]
        ELSE [outcome |-> "ok",
              rows |-> Mask(f3, {i \in 1..Len(f3) :
                                    StrContains(f3[i].Name, search_name)}, 1)]

\* The options of the three selectboxes: 'All' and the values in the frame.
Options(rows, field) == {"All"} \cup {rows[i][field] : i \in 1..Len(rows)}

-----------------------------------------------------------------------------
(* The session *)

\* Lines 70-74, before the first render pass.
Init ==
    /\ df = NoneDf
    /\ log = <<>>
    /\ config = NoConfig
    /\ page = "Dashboard"
    /\ uploaded = NoFile
    /\ last = Pass("init")
    /\ rerun = FALSE
    /\ ageDays = 0
    /\ ageGroup = "unset"
    /\ query = NoQuery
    /\ view = <<>>

\* A pass with no button pressed: the first pass of the session, a change of
\* the page or of another widget (station: the collection point the panel's
\* selectbox then holds), or the "Refresh Data" button (a bare st.rerun()).
Render(p) ==
    /\ ~rerun
    /\ \E disk \in DiskChoices(FALSE, uploaded),
       station \in IF p = "Notifications"
                   THEN {Stations[k] : k \in 1..Len(Stations)} ELSE {StationWidget} :
        LET d == MainTop(df, FALSE, uploaded, disk) IN
        /\ df' = RenderPage(d, p)
        /\ page' = p
        /\ config' = PanelConfig(d, p, station)
        /\ last' = Pass("render")
        /\ UNCHANGED <<log, uploaded, rerun, ageVars, filterVars>>

\* The sidebar's "Load/Refresh Data" button.
LoadRefresh ==
    /\ ~rerun
    /\ \E disk \in DiskChoices(TRUE, uploaded) :
        LET d == MainTop(df, TRUE, uploaded, disk) IN
        /\ df' = RenderPage(d, page)
        /\ config' = PanelConfig(d, page, StationWidget)
        /\ last' = Pass("load")
        /\ UNCHANGED <<log, page, uploaded, rerun, ageVars, filterVars>>

\* The user puts a CSV file into the uploader.
ChooseFile(f) ==
    LET up == [present |-> TRUE, rows |-> f]
        d  == MainTop(df, FALSE, up, NoFile) IN
    /\ ~rerun
    /\ uploaded' = up
    /\ df' = RenderPage(d, page)
    /\ config' = PanelConfig(d, page, StationWidget)
    /\ last' = Pass("upload")
    /\ UNCHANGED <<log, page, rerun, ageVars, filterVars>>

\* The user takes the file out of the uploader.
ClearFile ==
    /\ ~rerun
    /\ uploaded.present
    /\ \E disk \in DiskChoices(FALSE, NoFile) :
        LET d == MainTop(df, FALSE, NoFile, disk) IN
        /\ uploaded' = NoFile
        /\ df' = RenderPage(d, page)
        /\ config' = PanelConfig(d, page, StationWidget)
        /\ last' = Pass("clear")
        /\ UNCHANGED <<log, page, rerun, ageVars, filterVars>>

\* SendNotice with a handler that also marks the weapon of row i submitted.
SendNoticeMarksSubmitted(i) ==
    /\ ~rerun
    /\ page = "Weapon Management"
    /\ ~df.isNone
    /\ LET d == MainTop(df, FALSE, uploaded, NoFile)
           r == send_notification_simulation(
                    d.rows[i].Mobile, d.rows[i].Name, "collection", config) IN
        /\ i \in 1..Len(d.rows)
        /\ ~r.raised => Len(log) < MaxLog
        /\ df' = IF r.raised THEN d
                 ELSE [d EXCEPT !.rows = SetStatus(@, d.rows[i].License_No, "Submitted")]
        /\ log' = IF r.raised THEN log ELSE Append(log, r.event)
        /\ last' = [Pass("send") EXCEPT
                        !.row = i, !.key = d.rows[i].License_No,
                        !.outcome = IF r.raised THEN "AttributeError" ELSE "ok"]
        /\ UNCHANGED <<config, page, uploaded, rerun, ageVars, filterVars>>

\* Lines 315-322: "Send Notice" in the expander of row i.
SendNotice(i) ==
    /\ ~rerun
    /\ page = "Weapon Management"
    /\ ~df.isNone
    /\ LET d == MainTop(df, FALSE, uploaded, NoFile)
           r == send_notification_simulation(
                    d.rows[i].Mobile, d.rows[i].Name, "collection", config) IN
        /\ i \in 1..Len(d.rows)
        /\ ~r.raised => Len(log) < MaxLog
        /\ df' = d
        /\ log' = IF r.raised THEN log ELSE Append(log, r.event)
        /\ last' = [Pass("send") EXCEPT
                        !.row = i, !.key = d.rows[i].License_No,
                        !.outcome = IF r.raised THEN "AttributeError" ELSE "ok"]
        /\ UNCHANGED <<config, page, uploaded, rerun, ageVars, filterVars>>

\* Lines 324-334: the pass in which the status button in the expander of row
\* i is pressed (from is the status the button is drawn for, to the status it
\* writes).  The handler writes the status and ends the pass in st.rerun(),
\* which raises out of the script: nothing below line 328/334 is drawn, and
\* the only step that can follow is RerunPass.
Mark(i, from, to, op) ==
    /\ ~rerun
    /\ page = "Weapon Management"
    /\ ~df.isNone
    /\ LET d1 == MainTop(df, FALSE, uploaded, NoFile) IN
        /\ i \in 1..Len(d1.rows)
        /\ d1.rows[i].Status = from
        /\ df' = [d1 EXCEPT !.rows = SetStatus(@, d1.rows[i].License_No, to)]
        /\ last' = [Pass(op) EXCEPT
                        !.row = i, !.key = d1.rows[i].License_No,
                        !.outcome = "rerun", !.before = d1.rows]
        /\ rerun' = TRUE
        /\ UNCHANGED <<log, config, page, uploaded, ageVars, filterVars>>

MarkSubmitted(i) == Mark(i, "Active", "Submitted", "submit")

MarkReturned(i) == Mark(i, "Submitted", "Active", "return")

\* Lines 294-296: "Refresh Data" ends the pass in st.rerun().
RefreshData ==
    /\ ~rerun
    /\ page = "Weapon Management"
    /\ ~df.isNone
    /\ df' = MainTop(df, FALSE, uploaded, NoFile)
    /\ last' = [Pass("refresh") EXCEPT !.outcome = "rerun"]
    /\ rerun' = TRUE
    /\ UNCHANGED <<log, config, page, uploaded, ageVars, filterVars>>

\* The pass the script runner starts after st.rerun(): the widgets hold the
\* values they held, no button is pressed.  It is the first pass that draws
\* the page after a status button; with a file in the uploader lines 493-494
\* read the file again and the status written before st.rerun() is gone.
RerunPass ==
    /\ rerun
    /\ \E disk \in DiskChoices(FALSE, uploaded) :
        LET d == MainTop(df, FALSE, uploaded, disk) IN
        /\ df' = RenderPage(d, page)
        /\ config' = PanelConfig(d, page, StationWidget)
        /\ last' = [last EXCEPT !.outcome = "ok"]
        /\ rerun' = FALSE
        /\ UNCHANGED <<log, page, uploaded, ageVars, filterVars>>

\* Lines 288-292: "Export Filtered Data" with the four filter widgets set.
ExportFiltered(selected_area, selected_status, selected_weapon, search_name) ==
    /\ ~rerun
    /\ page = "Weapon Management"
    /\ ~df.isNone
    /\ LET d == MainTop(df, FALSE, uploaded, NoFile)
           filtered_df == FilteredDf(d.rows, selected_area, selected_status,
                                     selected_weapon, search_name) IN
        /\ selected_area \in Options(d.rows, "Area")
        /\ selected_status \in Options(d.rows, "Status")
        /\ selected_weapon \in Options(d.rows, "Gun_Type")
        /\ filtered_df.outcome = "ok"
        /\ Len(filtered_df.rows) > 0
        /\ df' = d
        /\ last' = [Pass("export") EXCEPT
                        !.filter = [area |-> selected_area, status |-> selected_status,
                                    weapon |-> selected_weapon, search |-> search_name],
                        !.out = [columns |-> d.columns, rows |-> filtered_df.rows]]
        /\ UNCHANGED <<log, config, page, uploaded, rerun, ageVars, filterVars>>

\* Lines 374-403: "Send Bulk Notifications" with selected_areas chosen, in a
\* pass that runs to its end: the events are built in the local list and
\* line 402 stores them after the loop.
SendBulk(selected_areas) ==
    /\ ~rerun
    /\ page = "Notifications"
    /\ ~df.isNone
    /\ LET d   == MainTop(df, FALSE, uploaded, NoFile)
           cfg == PanelConfig(d, page, StationWidget)
           filtered_for_notification == FilteredForNotification(d.rows, selected_areas)
           notifications == BulkNotifications(filtered_for_notification, cfg, 1) IN
        /\ selected_areas # {}
        /\ selected_areas \subseteq {d.rows[i].Area : i \in 1..Len(d.rows)}
        /\ Len(log) + Len(notifications) <= MaxLog
        /\ df' = d
        /\ config' = cfg
        /\ log' = log \o notifications
        /\ last' = [Pass("bulk") EXCEPT !.areas = selected_areas]
        /\ UNCHANGED <<page, uploaded, rerun, ageVars, filterVars>>

\* Lines 382-400: "Send Bulk Notifications" in a pass the script runner stops
\* at an element call of the handler (lines 383, 384, 397, 398) because a
\* widget event arrived, for instance while the loop waits in
\* time.sleep(0.1).  The panel values are stored (lines 344-364), the local
\* list of events is dropped and line 402 never runs.  The event is served by
\* the pass that follows.
SendBulkStopped(selected_areas) ==
    /\ ~rerun
    /\ page = "Notifications"
    /\ ~df.isNone
    /\ LET d   == MainTop(df, FALSE, uploaded, NoFile)
           cfg == PanelConfig(d, page, StationWidget) IN
        /\ selected_areas # {}
        /\ selected_areas \subseteq {d.rows[i].Area : i \in 1..Len(d.rows)}
        /\ df' = d
        /\ config' = cfg
        /\ last' = [Pass("bulk") EXCEPT !.areas = selected_areas,
                                        !.outcome = "stopped"]
        /\ UNCHANGED <<log, page, uploaded, rerun, ageVars, filterVars>>

\* The filter settings the export is pressed with in the session model; the
\* filter itself is explored over every setting in SpecFilter.
ExportChoices ==
    {NoFilter,
     [NoFilter EXCEPT !.area = Areas[1]],
     [NoFilter EXCEPT !.status = "Active"],
     [NoFilter EXCEPT !.search = <<".">>]}

Next ==
    \/ \E p \in Pages : Render(p)
    \/ LoadRefresh
    \/ \E f \in Files : ChooseFile(f)
    \/ ClearFile
    \/ \E i \in 1..MaxRows : SendNotice(i)
    \/ \E i \in 1..MaxRows : MarkSubmitted(i)
    \/ \E i \in 1..MaxRows : MarkReturned(i)
    \/ \E f \in ExportChoices :
            ExportFiltered(f.area, f.status, f.weapon, f.search)
    \/ RefreshData
    \/ RerunPass
    \/ \E sa \in SUBSET {Areas[k] : k \in 1..Len(Areas)} : SendBulk(sa)
    \/ \E sa \in SUBSET {Areas[k] : k \in 1..Len(Areas)} : SendBulkStopped(sa)

Spec == Init /\ [][Next]_vars

-----------------------------------------------------------------------------
(* The age classifier on its own *)

AgeInputs == {365 * y + r : y \in 0..MaxAge, r \in {0, 364}}

InitAge ==
    /\ df = NoneDf
    /\ log = <<>>
    /\ config = NoConfig
    /\ page = "Analytics"
    /\ uploaded = NoFile
    /\ last = Pass("init")
    /\ rerun = FALSE
    /\ ageDays \in AgeInputs
    /\ ageGroup = "unset"
    /\ query = NoQuery
    /\ view = <<>>

\* Lines 222-225 for one record.
Classify ==
    /\ ageGroup = "unset"
    /\ ageGroup' = AgeGroup(Age(ageDays))
    /\ UNCHANGED <<sessionVars, ageDays, filterVars>>

NextAge == Classify

SpecAge == InitAge /\ [][NextAge]_vars

-----------------------------------------------------------------------------
(* The weapon management filter on its own *)

QueryNames == {<<>>, <<"A", "b">>, <<"b", ".">>}

QueryRow ==
    [Name : QueryNames, Area : {Areas[k] : k \in 1..Len(Areas)},
     Gun_Type : {GunTypes[k] : k \in 1..Len(GunTypes)},
     Status : {"Active", "Expired"}]

QueryStores == UNION {[1..n -> QueryRow] : n \in 1..MaxQueryRows}

InitFilter ==
    /\ df = NoneDf
    /\ log = <<>>
    /\ config = NoConfig
    /\ page = "Weapon Management"
    /\ uploaded = NoFile
    /\ last = Pass("init")
    /\ rerun = FALSE
    /\ ageDays = 0
    /\ ageGroup = "unset"
    /\ \E rows \in QueryStores :
       \E a \in Options(rows, "Area"), s \in Options(rows, "Status"),
          w \in Options(rows, "Gun_Type"), n \in Searches :
            query = [rows |-> rows, done |-> FALSE, outcome |-> "ok",
                     filter |-> [area |-> a, status |-> s, weapon |-> w, search |-> n]]
    /\ view = <<>>

\* Lines 261-274 for one frame and one setting of the four widgets: the
\* filtered frame, or no frame when line 274 raises.
ApplyFilter ==
    /\ ~query.done
    /\ LET filtered_df == FilteredDf(query.rows, query.filter.area,
                                     query.filter.status, query.filter.weapon,
                                     query.filter.search) IN
        /\ view' = filtered_df.rows
        /\ query' = [query EXCEPT !.done = TRUE, !.outcome = filtered_df.outcome]
    /\ UNCHANGED <<sessionVars, ageVars>>

NextFilter == ApplyFilter

SpecFilter == InitFilter /\ [][NextFilter]_vars

-----------------------------------------------------------------------------
(* Claims *)

MarkOps == {"submit", "return"}

\* The status a status button is drawn for.
SourceStatus(op) == IF op = "submit" THEN "Active" ELSE "Submitted"

\* The status a status button writes.
TargetStatus(op) == IF op = "submit" THEN "Submitted" ELSE "Active"

\* C1: whatever the store holds (duplicate License_No values included), every
\* change of a row's status made by Mark Submitted or Mark Returned is
\* Active->Submitted or Submitted->Active; an Expired or Revoked row keeps its
\* status.
C1_OnlyLegalTransitions ==
    last.op \in MarkOps =>
        \A j \in 1..Len(last.before) :
            last.before[j].Status # df.rows[j].Status =>
                \/ last.before[j].Status = "Active" /\ df.rows[j].Status = "Submitted"
                \/ last.before[j].Status = "Submitted" /\ df.rows[j].Status = "Active"

\* C2: with a store loaded, a Send Notice always completes and appends exactly
\* one event with status 'Sent' to the notification log, also when the
\* Notifications page was never drawn.
C2_DispatchNeverFails ==
    [][last'.op = "send" =>
        /\ last'.outcome = "ok"
        /\ Len(log') = Len(log) + 1
        /\ log'[Len(log')].status = "Sent"]_vars

\* C3: once the store is populated, only Load/Refresh or a newly chosen file
\* replaces its contents: every other pass leaves the rows as they were,
\* except that the pass of Mark Submitted / Mark Returned sets the status of
\* the rows with the License_No acted on, and every later pass keeps it.
C3_StoreLivesForSession ==
    [][(~df.isNone /\ last'.op \notin {"load", "upload"}) =>
        /\ ~df'.isNone
        /\ df'.rows =
             IF last'.op \in MarkOps /\ rerun'
             THEN SetStatus(df.rows, last'.key, TargetStatus(last'.op))
             ELSE df.rows]_vars

\* C4: Mark Submitted on an Active record of License_No X followed by Mark
\* Returned on X leaves every record with License_No X in the status it had
\* before the Mark Submitted.
C4_RoundTrip ==
    [][(last.op = "submit" /\ last'.op = "return" /\ last'.key = last.key) =>
        \A j \in 1..Len(last.before) :
            last.before[j].License_No = last.key =>
                df'.rows[j].Status = last.before[j].Status]_vars

\* C5: when a status button's mutation reaches a record that is not in the
\* button's source state, the outcome is UpdateError{InvalidTransition} and the
\* store is left as it was.
C5_InvalidTransitionRejected ==
    (/\ last.op \in MarkOps
     /\ \E j \in 1..Len(last.before) :
            /\ last.before[j].License_No = last.key
            /\ last.before[j].Status # SourceStatus(last.op))
    => (last.outcome = "InvalidTransition" /\ df.rows = last.before)

\* The indices of the rows a bulk dispatch addresses.
Recipients(rows, areas) ==
    {i \in 1..Len(rows) : rows[i].Status = "Active" /\ rows[i].Area \in areas}

\* C6: a bulk dispatch over the K Active records of the selected areas appends
\* exactly K events to the log, the i-th of them carrying the name and mobile
\* of the i-th such record in store order.
C6_BulkAppendsKInOrder ==
    [][last'.op = "bulk" =>
        LET R == Recipients(df.rows, last'.areas) IN
        /\ Len(log') = Len(log) + Cardinality(R)
        /\ SubSeq(log', 1, Len(log)) = log
        /\ \A i \in R :
            LET e == log'[Len(log) + Cardinality({k \in R : k <= i})] IN
            /\ e.name = df.rows[i].Name
            /\ e.mobile = df.rows[i].Mobile
            /\ e.status = "Sent"]_vars

\* Case-insensitive containment of the literal string s in text.
Substring(text, s) ==
    \E off \in 0..(Len(text) - Len(s)) :
        \A k \in 1..Len(s) : Lower(s[k]) = Lower(text[off + k])

\* The conjunction of the specified predicates of a filter spec.
Satisfies(r, f) ==
    /\ f.area = "All" \/ r.Area = f.area
    /\ f.status = "All" \/ r.Status = f.status
    /\ f.weapon = "All" \/ r.Gun_Type = f.weapon
    /\ f.search = <<>> \/ Substring(r.Name, f.search)

\* C7: the filtered view is the subsequence, in store order, of exactly the
\* records that satisfy every specified predicate (area, status, gun type
\* equal to the selection; name containing the search string, whatever the
\* case); an unspecified field excludes nothing.  Every store and every
\* filter spec has such a view.
C7_FilterIsConjunction ==
    query.done =>
        LET Test(r) == Satisfies(r, query.filter) IN
        /\ query.outcome = "ok"
        /\ view = SelectSeq(query.rows, Test)

\* The bucket whose label range holds a whole-year age.
LabelledBucket(age) ==
    IF age < 21 THEN "NaN"
    ELSE IF age <= 30 THEN "21-30"
    ELSE IF age <= 40 THEN "31-40"
    ELSE IF age <= 50 THEN "41-50"
    ELSE IF age <= 60 THEN "51-60"
    ELSE "60+"

\* C8: the age classifier puts a whole-year age into the bucket whose label
\* range holds it (21-30, 31-40, 41-50, 51-60, above 60 into '60+') and leaves
\* every age below 21 out of all buckets.
C8_AgeBucketMatchesLabel ==
    ageGroup # "unset" => ageGroup = LabelledBucket(Age(ageDays))

\* C9: no view writes to the store: the stored frame always has exactly the
\* columns of the input schema, in order, and so has every export.
C9_QueriesNeverMutate ==
    /\ ~df.isNone => df.columns = Schema /\ df.derived = <<>>
    /\ last.op = "export" => last.out.columns = Schema

\* C10: a Send Notice or a bulk send only appends to the notification log:
\* the stored frame (every status and every other field) and the rest of the
\* session state are as they were.
C10_DispatchLeavesStore ==
    [][last'.op \in {"send", "bulk"} =>
        /\ df' = df
        /\ config' = config
        /\ page' = page
        /\ uploaded' = uploaded
        /\ Len(log') >= Len(log)
        /\ SubSeq(log', 1, Len(log)) = log]_vars

\* A bulk send has just appended to the log while a file with an Active and
\* a non-Active record sits in the uploader (so the pass read it again).
C10_Witness ==
    /\ last.op = "bulk"
    /\ last.outcome = "ok"
    /\ Len(log) >= 1
    /\ uploaded.present
    /\ \E i \in 1..Len(df.rows) : df.rows[i].Status = "Active"
    /\ \E i \in 1..Len(df.rows) : df.rows[i].Status = "Submitted"

\* C11: a status mutation (Mark Submitted / Mark Returned), keyed by the
\* License_No X of the row acted on, gives every row with License_No X the new
\* status (all of them when X is duplicated) and leaves the status of the
\* rows with another License_No, every other field, the number of rows and
\* their order as they were: that is the store the mutation leaves, at the
\* end of the handler's pass and in the pass that draws the page after it.
C11_MutationFrame ==
    last.op \in MarkOps =>
        /\ Len(df.rows) = Len(last.before)
        /\ \A j \in 1..Len(last.before) :
            LET b == last.before[j]
                a == df.rows[j] IN
            /\ a.Status = IF b.License_No = last.key
                          THEN TargetStatus(last.op) ELSE b.Status
            /\ a.License_No = b.License_No
            /\ a.Name = b.Name
            /\ a.Area = b.Area
            /\ a.Gun_Type = b.Gun_Type
            /\ a.Mobile = b.Mobile
            /\ a.DOB = b.DOB

====
